---- MODULE Spec2Model ----
(***************************************************************************)
(* domain-radar-bot (src/bot/main.py): the headline company-name          *)
(* extractor, the domain extractor, the relevance scorer and the          *)
(* process() ingestion loop with its upsert sink.                         *)
(*                                                                         *)
(* Text is a TLA+ string (a sequence of characters); positions are        *)
(* 1-based, so Python's t[k:] is SubSeq(t, k + 1, Len(t)).                *)
(***************************************************************************)
EXTENDS Integers, Sequences, FiniteSets, TLC

VARIABLES
    fpc,        \* harness of the pure functions: "idle", "called", "returned"
    fn,         \* the function under call
    args,       \* its arguments
    ret,        \* its return value
    pc,         \* process(): "off", "feed", "entry", "sink", "done", "crashed"
    feedIdx,    \* number of FEEDS already parsed
    feedLen,    \* len(feed.entries) of the current feed
    entryIdx,   \* entries of the current feed already visited
    entry,      \* the raw entry being processed
    row,        \* the row handed to upsert_startup
    code,       \* status code the last upsert_startup returned
    total,      \* process(): total
    kept,       \* process(): kept
    calls,      \* requests.post calls made in this run
    named,      \* entries of this run for which a name was extracted
    due,        \* entries of this run inside the slices of the feeds parsed
    store,      \* the startups table behind the sink
    outcome,    \* what the table did with the last post
    runs        \* completed or started runs of process()

vars == <<fpc, fn, args, ret, pc, feedIdx, feedLen, entryIdx, entry, row,
          code, total, kept, calls, named, due, store, outcome, runs>>

----------------------------------------------------------------------------
(* Characters and Python's str helpers *)

Upper == {"A","B","C","D","E","F","G","H","I","J","K","L","M",
          "N","O","P","Q","R","S","T","U","V","W","X","Y","Z"}

Lower == {"a","b","c","d","e","f","g","h","i","j","k","l","m",
          "n","o","p","q","r","s","t","u","v","w","x","y","z"}

Digit == {"0","1","2","3","4","5","6","7","8","9"}

\* regex \s and str.isspace on the ASCII range
Space == {" ", "\t", "\n", "\r", "\f"}

\* regex \w
WordChar == Upper \cup Lower \cup Digit \cup {"_"}

\* None, a value no text function can return (names hold no "<")
None == "<None>"

\* the character standing for U+2019 (right single quotation mark)
RSQUO == "~"

Ch(s, i) == SubSeq(s, i, i)

UpperAlphabet == "ABCDEFGHIJKLMNOPQRSTUVWXYZ"

LowerAlphabet == "abcdefghijklmnopqrstuvwxyz"

LowerCh(c) ==
    IF c \in Upper
    THEN Ch(LowerAlphabet, CHOOSE i \in 1..26 : Ch(UpperAlphabet, i) = c)
    ELSE c

RECURSIVE LowerFrom(_, _)
LowerFrom(s, i) ==
    IF i > Len(s) THEN "" ELSE LowerCh(Ch(s, i)) \o LowerFrom(s, i + 1)

\* str.lower
ToLower(s) == LowerFrom(s, 1)

\* str.isupper: some cased character, and no lowercase one
IsUpperStr(s) ==
    /\ \E i \in 1..Len(s) : Ch(s, i) \in Upper
    /\ \A i \in 1..Len(s) : Ch(s, i) \notin Lower

\* s[k:] of Python (k >= 0)
From(s, k) == SubSeq(s, k + 1, Len(s))

\* s[:k] of Python (k >= 0)
Prefix(s, k) == SubSeq(s, 1, IF k < Len(s) THEN k ELSE Len(s))

StartsWith(s, p) == Len(p) <= Len(s) /\ SubSeq(s, 1, Len(p)) = p

EndsWith(s, p) ==
    Len(p) <= Len(s) /\ SubSeq(s, Len(s) - Len(p) + 1, Len(s)) = p

\* p in s
Contains(s, p) ==
    \E i \in 1..(Len(s) - Len(p) + 1) : SubSeq(s, i, i + Len(p) - 1) = p

RECURSIVE SkipSpace(_, _)
\* first position >= i that holds no whitespace (Len(s) + 1 when none)
SkipSpace(s, i) ==
    IF i <= Len(s) /\ Ch(s, i) \in Space THEN SkipSpace(s, i + 1) ELSE i

RECURSIVE SkipSpaceBack(_, _)
SkipSpaceBack(s, j) ==
    IF j >= 1 /\ Ch(s, j) \in Space THEN SkipSpaceBack(s, j - 1) ELSE j

LStrip(s) == SubSeq(s, SkipSpace(s, 1), Len(s))

Strip(s) == SubSeq(s, SkipSpace(s, 1), SkipSpaceBack(s, Len(s)))

RECURSIVE WordEnd(_, _)
\* last position of the run of non-whitespace that starts at i
WordEnd(s, i) ==
    IF i < Len(s) /\ Ch(s, i + 1) \notin Space THEN WordEnd(s, i + 1) ELSE i

RECURSIVE SplitFrom(_, _)
SplitFrom(s, i) ==
    LET b == SkipSpace(s, i) IN
    IF b > Len(s) THEN <<>>
    ELSE LET e == WordEnd(s, b) IN <<SubSeq(s, b, e)>> \o SplitFrom(s, e + 1)

\* str.split()
Split(s) == SplitFrom(s, 1)

RECURSIVE Join(_, _)
\* sep.join(parts)
Join(parts, sep) ==
    IF Len(parts) = 0 THEN ""
    ELSE IF Len(parts) = 1 THEN parts[1]
         ELSE parts[1] \o sep \o Join(Tail(parts), sep)

RECURSIVE ReplaceCh(_, _, _, _)
\* s.replace(a, b) for one-character a
ReplaceCh(s, a, b, i) ==
    IF i > Len(s) THEN ""
    ELSE (IF Ch(s, i) = a THEN b ELSE Ch(s, i)) \o ReplaceCh(s, a, b, i + 1)

\* regex \b between positions j and j + 1
Boundary(s, j) ==
    (j >= 1 /\ j <= Len(s) /\ Ch(s, j) \in WordChar)
        # (j + 1 <= Len(s) /\ Ch(s, j + 1) \in WordChar)

----------------------------------------------------------------------------
(* Name filter lists *)

GEO == {"UK","US","EU","UAE","USA","Europe","European","London","Paris",
        "Berlin","Germany","German","France","French","Spain","Spanish",
        "Italy","Italian","China","India","World","Global"}

NOISE == {"AI","This","That","These","Those","Ask","Are","How","Why","What",
          "When","Where","Who","Ex","Breaking","Report","Opinion","Analysis",
          "Startup","Startups","VC","CEO","IPO"}

BAD_LOWER == {"startup","startups","company","companies","firm","fund",
              "funding","raises","raise","raised","round","seed","series",
              "pre-seed","deal","launch","launches","announces","announce",
              "says","said","adds","added","report","interview","podcast",
              "newsletter","today","yesterday","tomorrow"}

ORG_SUFFIX == {"Inc","Ltd","PLC","LLC","GmbH","SAS","Srl","Srls","BV","AB",
               "Oy","SA","AG","NV"}

\* the alternatives of the ACTION_VERBS alternation (none is a prefix of
\* another, so with the \b that follows at most one can match at a position)
ACTION_VERBS == {"raises","raised","acquires","acquired","buys","bought",
                 "launches","launched","announces","announced","secures",
                 "secured","lands","landed","partners","partnered","backs",
                 "backed","files","filed","unveils","unveiled","introduces",
                 "introduced"}

----------------------------------------------------------------------------
(* Text normaliser *)

\* re.sub(r"\s+", " ", s).strip()
normalize_spaces(s) == Join(Split(s), " ")

----------------------------------------------------------------------------
(* Company name extractor *)

\* token_ok without its GEO / NOISE blacklist
token_ok_no_blacklist(w0) ==
    IF w0 = "" THEN FALSE
    ELSE LET w == Strip(w0) IN
         IF Len(w) < 3 THEN FALSE
         ELSE IF \E i \in 1..Len(w) : Ch(w, i) \in Digit THEN FALSE
         ELSE IF IsUpperStr(w) /\ Len(w) <= 4 THEN FALSE
         ELSE IF ToLower(w) \in BAD_LOWER THEN FALSE
         ELSE TRUE

token_ok(w0) ==
    IF w0 = "" THEN FALSE
    ELSE LET w == Strip(w0) IN
         IF Len(w) < 3 THEN FALSE
         ELSE IF \E i \in 1..Len(w) : Ch(w, i) \in Digit THEN FALSE
         ELSE IF IsUpperStr(w) /\ Len(w) <= 4 THEN FALSE
         ELSE IF w \in GEO \/ w \in NOISE THEN FALSE
         ELSE IF ToLower(w) \in BAD_LOWER THEN FALSE
         ELSE TRUE

strip_org_suffix(name) ==
    Strip(Join(SelectSeq(Split(name), LAMBDA p : p \notin ORG_SUFFIX), " "))

\* the class [A-Za-z0-9&.-]
NameChar == Upper \cup Lower \cup Digit \cup {"&", ".", "-"}

RECURSIVE NameRunEnd(_, _)
NameRunEnd(t, i) ==
    IF i < Len(t) /\ Ch(t, i + 1) \in NameChar THEN NameRunEnd(t, i + 1) ELSE i

\* last position of the longest match of [A-Z][A-Za-z0-9&.-]+ at i, 0 if none
TokMaxEnd(t, i) ==
    IF i + 1 <= Len(t) /\ Ch(t, i) \in Upper /\ Ch(t, i + 1) \in NameChar
    THEN NameRunEnd(t, i + 1)
    ELSE 0

RECURSIVE TokenChain(_, _, _)
\* the greedy parse of TOK(?:\sTOK){0,n-1} at i: the tokens, each the longest
TokenChain(t, i, n) ==
    IF n = 0 THEN <<>>
    ELSE LET e == TokMaxEnd(t, i) IN
         IF e = 0 THEN <<>>
         ELSE <<[b |-> i, e |-> e]>> \o
              (IF e + 1 <= Len(t) /\ Ch(t, e + 1) \in Space
               THEN TokenChain(t, e + 2, n - 1)
               ELSE <<>>)

RECURSIVE DownTo(_, _)
DownTo(hi, lo) == IF hi < lo THEN <<>> ELSE <<hi>> \o DownTo(hi - 1, lo)

RECURSIVE BacktrackEnds(_, _)
BacktrackEnds(chain, k) ==
    IF k = 0 THEN <<>>
    ELSE DownTo(chain[k].e, chain[k].b + 1) \o BacktrackEnds(chain, k - 1)

\* every end of a match of ([A-Z][A-Za-z0-9&.-]+(?:\s[A-Z][A-Za-z0-9&.-]+){0,2})
\* at i, in the order the backtracking matcher tries them: most repetitions
\* first, the last token from its longest to its shortest (a shortened token
\* is followed by a name character, so no repetition can follow it)
GroupEnds(t, i) ==
    LET chain == TokenChain(t, i, 3) IN BacktrackEnds(chain, Len(chain))

\* (ACTION_VERBS)\b at p; ic is re.IGNORECASE
VerbAt(t, p, ic) ==
    \E v \in ACTION_VERBS :
        /\ p >= 1
        /\ p + Len(v) - 1 <= Len(t)
        /\ LET w == SubSeq(t, p, p + Len(v) - 1) IN
           (IF ic THEN ToLower(w) ELSE w) = v
        /\ Boundary(t, p + Len(v) - 1)

\* what follows the group in the first strong pattern: 's\b
PossessiveAfter(t, e) ==
    e + 2 <= Len(t) /\ SubSeq(t, e + 1, e + 2) = "'s" /\ Boundary(t, e + 2)

\* what follows the group in the second strong pattern: \s+(ACTION_VERBS)\b
VerbAfter(t, e) ==
    /\ e + 1 <= Len(t)
    /\ Ch(t, e + 1) \in Space
    /\ VerbAt(t, SkipSpace(t, e + 1), FALSE)

\* re.search of strong pattern pat (1 or 2) on t: group(1), or None
StrongGroup(t, pat) ==
    LET ends == GroupEnds(t, 1)
        ok(e) == IF pat = 1 THEN PossessiveAfter(t, e) ELSE VerbAfter(t, e)
        hits == {k \in 1..Len(ends) : ok(ends[k])}
    IN  IF hits = {} THEN None
        ELSE SubSeq(t, 1, ends[CHOOSE k \in hits : \A j \in hits : k <= j])

AllTokensOk(s) == \A k \in 1..Len(Split(s)) : token_ok(Split(s)[k])

\* the candidate a strong pattern yields when it matches
StrongCand(t, pat) == strip_org_suffix(normalize_spaces(StrongGroup(t, pat)))

\* a strong pattern matched and its candidate passed the token filter
StrongAccepts(t, pat) ==
    /\ StrongGroup(t, pat) # None
    /\ StrongCand(t, pat) # ""
    /\ AllTokensOk(StrongCand(t, pat))

\* the return inside the loop over strong_patterns
StrongReturn(t, pat) ==
    LET cand == StrongCand(t, pat) IN
    IF cand \in GEO \/ cand \in NOISE THEN None ELSE cand

RECURSIVE FindAllFrom(_, _)
\* re.findall of \b(TOK(?:\sTOK){0,2})\b from position i: leftmost match, its
\* first end in backtracking order that has a word boundary, then on from there
FindAllFrom(t, i) ==
    IF i > Len(t) THEN <<>>
    ELSE LET ends == IF i = 1 \/ Ch(t, i - 1) \notin WordChar
                     THEN GroupEnds(t, i) ELSE <<>>
             hits == {k \in 1..Len(ends) : Boundary(t, ends[k])}
         IN  IF hits = {} THEN FindAllFrom(t, i + 1)
             ELSE LET e == ends[CHOOSE k \in hits : \A j \in hits : k <= j]
                  IN  <<[b |-> i, e |-> e]>> \o FindAllFrom(t, e + 1)

\* the matches of the fallback pattern, with the place of each in t
FindAll(t) == FindAllFrom(t, 1)

RECURSIVE MapStrip(_, _, _)
MapStrip(t, ms, k) ==
    IF k > Len(ms) THEN <<>>
    ELSE <<[s |-> strip_org_suffix(normalize_spaces(SubSeq(t, ms[k].b, ms[k].e))),
            b |-> ms[k].b, e |-> ms[k].e]>> \o MapStrip(t, ms, k + 1)

\* seqs: the suffix-stripped, non-empty matches; b and e keep where each
\* match lies in t (the code keeps the string s alone)
Seqs(t) == SelectSeq(MapStrip(t, FindAll(t), 1), LAMBDA c : c.s # "")

\* the slice seqs[:20]
MaxSeqs == 20

\* the +8 test of the loop: after = t[len(s):].lstrip()
BonusTest(t, s) == VerbAt(LStrip(From(t, Len(s))), 1, TRUE)

\* the score the loop gives an accepted candidate s
CandScore(t, s) ==
      (IF Len(Split(s)) >= 2 THEN 6 ELSE 0)
    + (IF Len(s) >= 6 THEN 3 ELSE 0)
    + (IF BonusTest(t, s) THEN 8 ELSE 0)
    - (IF s \in GEO THEN 20 ELSE 0)

RECURSIVE ScoreLoop(_, _, _)
ScoreLoop(t, seqs, k) ==
    IF k > Len(seqs) THEN <<>>
    ELSE LET c == seqs[k] IN
         IF Len(Split(c.s)) = 0 \/ ~AllTokensOk(c.s)
         THEN ScoreLoop(t, seqs, k + 1)
         ELSE <<[score |-> CandScore(t, c.s), s |-> c.s,
                 bonus |-> BonusTest(t, c.s), b |-> c.b, e |-> c.e]>>
              \o ScoreLoop(t, seqs, k + 1)

\* scored: (score, s) of every accepted candidate, in encounter order
Scored(t) == ScoreLoop(t, Prefix(Seqs(t), MaxSeqs), 1)

RECURSIVE InsertDesc(_, _)
\* x put behind every element whose score is >= its own
InsertDesc(sorted, x) ==
    IF Len(sorted) = 0 THEN <<x>>
    ELSE IF sorted[1].score >= x.score
         THEN <<sorted[1]>> \o InsertDesc(Tail(sorted), x)
         ELSE <<x>> \o sorted

RECURSIVE SortDescFrom(_, _, _)
SortDescFrom(acc, xs, k) ==
    IF k > Len(xs) THEN acc ELSE SortDescFrom(InsertDesc(acc, xs[k]), xs, k + 1)

RECURSIVE InsertDescTiesFirst(_, _)
InsertDescTiesFirst(sorted, x) ==
    IF Len(sorted) = 0 THEN <<x>>
    ELSE IF sorted[1].score > x.score
         THEN <<sorted[1]>> \o InsertDescTiesFirst(Tail(sorted), x)
         ELSE <<x>> \o sorted

RECURSIVE SortTiesLastFrom(_, _, _)
SortTiesLastFrom(acc, xs, k) ==
    IF k > Len(xs) THEN acc
    ELSE SortTiesLastFrom(InsertDescTiesFirst(acc, xs[k]), xs, k + 1)

\* a descending sort that is not stable: of equal scores the later comes first
SortByScoreTiesLast(xs) == SortTiesLastFrom(<<>>, xs, 1)

\* scored.sort(key=lambda x: x[0], reverse=True): stable, highest score first
SortByScoreDesc(xs) == SortDescFrom(<<>>, xs, 1)

\* the fallback scan, from seqs to the return
Fallback(t) ==
    IF Len(Seqs(t)) = 0 THEN None
    ELSE LET scored == Scored(t) IN
         IF Len(scored) = 0 THEN None
         ELSE LET best == SortByScoreDesc(scored)[1].s IN
              IF best \in GEO \/ best \in NOISE THEN None ELSE best

\* t of extract_company_name
TitleText(title) == normalize_spaces(ReplaceCh(title, RSQUO, "'", 1))

\* the fallback scan consulted before the strong patterns
extract_fallback_first(title) ==
    LET t == TitleText(title) IN
    IF Fallback(t) # None THEN Fallback(t)
    ELSE IF StrongAccepts(t, 1) THEN StrongReturn(t, 1)
    ELSE IF StrongAccepts(t, 2) THEN StrongReturn(t, 2)
    ELSE None

extract_company_name(title) ==
    LET t == TitleText(title) IN
    IF StrongAccepts(t, 1) THEN StrongReturn(t, 1)
    ELSE IF StrongAccepts(t, 2) THEN StrongReturn(t, 2)
    ELSE Fallback(t)


----------------------------------------------------------------------------
(* Text cleaner *)

\* the printable ASCII characters, code 32 (space) first
Printable ==
    " !\"#$%&'()*+,-./0123456789:;<=>?@ABCDEFGHIJKLMNOPQRSTUVWXYZ[\\]^_"
    \o "abcdefghijklmnopqrstuvwxyz{|}~"

\* the named character references html.unescape is modelled on; the ones
\* without ";" are the legacy names HTML allows unterminated
HtmlEntity(name) ==
    CASE name \in {"amp;", "amp"} -> "&"
      [] name \in {"lt;", "lt"} -> "<"
      [] name \in {"gt;", "gt"} -> ">"
      [] name \in {"quot;", "quot"} -> "\""
      [] name = "apos;" -> "'"
      [] name = "nbsp;" -> " "
      [] OTHER -> None

RECURSIVE RefEnd(_, _, _)
\* last position of the run [^\t\n\f <&#;]{1,32} that starts at i (i - 1 if empty)
RefEnd(s, i, n) ==
    IF n < 32 /\ i + n <= Len(s)
       /\ Ch(s, i + n) \notin {"\t", "\n", "\f", " ", "<", "&", "#", ";"}
    THEN RefEnd(s, i, n + 1)
    ELSE i + n - 1

\* replacement of the reference body (the text after "&"): the whole body if
\* it is a name, else the longest prefix that is one followed by the rest,
\* else the text unchanged
ReplaceRef(body) ==
    IF HtmlEntity(body) # None THEN HtmlEntity(body)
    ELSE LET ks == {k \in 1..(Len(body) - 1) : HtmlEntity(Prefix(body, k)) # None}
         IN  IF ks = {} THEN "&" \o body
             ELSE LET k == CHOOSE k \in ks : \A j \in ks : j <= k
                  IN  HtmlEntity(Prefix(body, k)) \o From(body, k)

RECURSIVE UnescapeFrom(_, _)
UnescapeFrom(s, i) ==
    IF i > Len(s) THEN ""
    ELSE IF Ch(s, i) # "&" THEN Ch(s, i) \o UnescapeFrom(s, i + 1)
    ELSE LET e == RefEnd(s, i + 1, 0)
             e2 == IF e >= i + 1 /\ e + 1 <= Len(s) /\ Ch(s, e + 1) = ";"
                   THEN e + 1 ELSE e
         IN  IF e < i + 1 THEN "&" \o UnescapeFrom(s, i + 1)
             ELSE ReplaceRef(SubSeq(s, i + 1, e2)) \o UnescapeFrom(s, e2 + 1)

\* html.unescape, on text whose references are named ones (no "&#")
html_unescape(s) == UnescapeFrom(s, 1)

RECURSIVE IndexOf(_, _, _)
\* first position >= i of character c in s, 0 if none
IndexOf(s, c, i) ==
    IF i > Len(s) THEN 0 ELSE IF Ch(s, i) = c THEN i ELSE IndexOf(s, c, i + 1)

RECURSIVE StripTagsFrom(_, _)
\* re.sub(r"<[^>]+>", " ", s)
StripTagsFrom(s, i) ==
    IF i > Len(s) THEN ""
    ELSE LET j == IF Ch(s, i) = "<" THEN IndexOf(s, ">", i + 1) ELSE 0 IN
         IF j > i + 1 THEN " " \o StripTagsFrom(s, j + 1)
         ELSE Ch(s, i) \o StripTagsFrom(s, i + 1)

clean_text(s) == normalize_spaces(StripTagsFrom(html_unescape(s), 1))

----------------------------------------------------------------------------
(* Domain extractor *)

\* the suffix alternation of DOMAIN_RE
TLDS == {"com","io","ai","co","net","org","app","dev","info","eu","it","fr",
         "de","es","uk","me","xyz"}

\* the class [a-zA-Z0-9-]
LabelChar == Upper \cup Lower \cup Digit \cup {"-"}

RECURSIVE LabelRunEnd(_, _)
\* last position of the run of label characters that starts at i (i - 1 if empty)
LabelRunEnd(t, i) ==
    IF i <= Len(t) /\ Ch(t, i) \in LabelChar THEN LabelRunEnd(t, i + 1) ELSE i - 1

RECURSIVE LabelDots(_, _)
\* the greedy parse of (?:[a-zA-Z0-9-]+\.)+ at i: the position of the dot that
\* ends each label, nearest first
LabelDots(t, i) ==
    LET e == LabelRunEnd(t, i) IN
    IF e >= i /\ e + 1 <= Len(t) /\ Ch(t, e + 1) = "."
    THEN <<e + 1>> \o LabelDots(t, e + 2)
    ELSE <<>>

\* last position of (?:com|io|...)\b matched at p ignoring case, 0 if none
TldEnd(t, p) ==
    LET hits == {d \in TLDS : /\ p + Len(d) - 1 <= Len(t)
                              /\ ToLower(SubSeq(t, p, p + Len(d) - 1)) = d
                              /\ Boundary(t, p + Len(d) - 1)}
    IN  IF hits = {} THEN 0 ELSE p + Len(CHOOSE d \in hits : TRUE) - 1

\* last position of the match of DOMAIN_RE at i, 0 if none: the leading \b,
\* then the most labels after which a suffix and a \b follow
DomainEnd(t, i) ==
    IF ~Boundary(t, i - 1) THEN 0
    ELSE LET dots == LabelDots(t, i)
             ks == {k \in 1..Len(dots) : TldEnd(t, dots[k] + 1) > 0}
         IN  IF ks = {} THEN 0
             ELSE TldEnd(t, dots[CHOOSE k \in ks : \A j \in ks : j <= k] + 1)

RECURSIVE DomainFindAll(_, _)
\* DOMAIN_RE.findall(text) from position i
DomainFindAll(t, i) ==
    IF i > Len(t) THEN <<>>
    ELSE LET e == DomainEnd(t, i) IN
         IF e = 0 THEN DomainFindAll(t, i + 1)
         ELSE <<SubSeq(t, i, e)>> \o DomainFindAll(t, e + 1)

\* the loop body of extract_domains: lowercase, drop one leading "www."
NormalizeDomain(d0) ==
    LET d == ToLower(d0) IN IF StartsWith(d, "www.") THEN From(d, 4) ELSE d

\* code point of a printable ASCII character
Ord(c) == 31 + (CHOOSE i \in 1..Len(Printable) : Ch(Printable, i) = c)

RECURSIVE StrLess(_, _)
\* a < b of Python str: by code point, a proper prefix first
StrLess(a, b) ==
    IF b = "" THEN FALSE
    ELSE IF a = "" THEN TRUE
    ELSE IF Ch(a, 1) = Ch(b, 1) THEN StrLess(From(a, 1), From(b, 1))
    ELSE Ord(Ch(a, 1)) < Ord(Ch(b, 1))

RECURSIVE Sorted(_)
\* sorted(S) of a set of strings
Sorted(S) ==
    IF S = {} THEN <<>>
    ELSE LET m == CHOOSE x \in S : \A y \in S \ {x} : StrLess(x, y)
         IN  <<m>> \o Sorted(S \ {m})

\* set(xs) of a list
SetOf(xs) == {xs[k] : k \in 1..Len(xs)}

extract_domains(text) ==
    IF text = "" THEN <<>>
    ELSE LET found == DomainFindAll(text, 1) IN
         Sorted({NormalizeDomain(found[k]) : k \in 1..Len(found)})

\* characters a URL scheme may hold after its first letter
SchemeChar == Upper \cup Lower \cup Digit \cup {"+", "-", "."}

\* urlsplit's scheme split: the text after "scheme:", or the url itself
AfterScheme(url) ==
    LET i == IndexOf(url, ":", 1) IN
    IF /\ i > 1
       /\ Ch(url, 1) \in Upper \cup Lower
       /\ \A k \in 1..(i - 1) : Ch(url, k) \in SchemeChar
    THEN From(url, i)
    ELSE url

\* urlparse(url).netloc: after "//", up to the first of "/", "?", "#"
Netloc(url) ==
    LET rest == AfterScheme(url) IN
    IF ~StartsWith(rest, "//") THEN ""
    ELSE LET stops == {k \in 3..Len(rest) : Ch(rest, k) \in {"/", "?", "#"}}
             stop == IF stops = {} THEN Len(rest) + 1
                     ELSE CHOOSE k \in stops : \A j \in stops : k <= j
         IN  SubSeq(rest, 3, stop - 1)

\* urlparse raises ValueError on a netloc with one bracket of a pair
UrlParseRaises(url) ==
    LET n == Netloc(url) IN (IndexOf(n, "[", 1) > 0) # (IndexOf(n, "]", 1) > 0)

get_domain_from_url(url) ==
    IF UrlParseRaises(url) THEN None
    ELSE LET lowered == ToLower(Netloc(url))
             colon == IndexOf(lowered, ":", 1)
             host0 == IF colon = 0 THEN lowered ELSE Prefix(lowered, colon - 1)
             host == IF StartsWith(host0, "www.") THEN From(host0, 4) ELSE host0
         IN  IF host = "" THEN None ELSE host

----------------------------------------------------------------------------
(* Relevance scorer *)

KEYWORDS_POS ==
    << <<"raises", 18>>, <<"raised", 18>>, <<"funding", 14>>, <<"seed", 10>>,
       <<"series", 10>>, <<"acquires", 16>>, <<"acquired", 16>>,
       <<"launches", 10>>, <<"launched", 10>>, <<"secures", 14>>,
       <<"secured", 14>>, <<"lands", 12>>, <<"landed", 12>>,
       <<"partners", 8>>, <<"partnership", 8>> >>

KEYWORDS_NEG ==
    << <<"opinion", -8>>, <<"podcast", -6>>, <<"newsletter", -6>>,
       <<"how to", -8>>, <<"analysis", -4>>, <<"explainer", -6>> >>

RECURSIVE AddFirstWeight(_, _, _, _)
\* the keyword loop leaving at its first hit: the weights exclude each other
AddFirstWeight(score, table, text, i) ==
    IF i > Len(table) THEN score
    ELSE IF Contains(text, table[i][1]) THEN score + table[i][2]
    ELSE AddFirstWeight(score, table, text, i + 1)

RECURSIVE AddWeights(_, _, _, _)
\* for k, w in table.items(): if k in text: score += w
AddWeights(score, table, text, i) ==
    IF i > Len(table) THEN score
    ELSE AddWeights(IF Contains(text, table[i][1]) THEN score + table[i][2]
                    ELSE score, table, text, i + 1)

\* the bonus for a non-empty domain list, and its ".info" extra
DomainBonus(domains) ==
    IF Len(domains) > 0
    THEN 12 + (IF \E k \in 1..Len(domains) : EndsWith(domains[k], ".info")
               THEN 4 ELSE 0)
    ELSE 0

\* max(0, score): the upper cut forgotten
ClampBelowOnly(score) == IF score < 0 THEN 0 ELSE score

\* max(0, min(100, score))
Clamp(score) == IF score > 100 THEN 100 ELSE IF score < 0 THEN 0 ELSE score

compute_score(title, summary, domains) ==
    LET text == ToLower(title \o " " \o summary)
        pos == AddWeights(50, KEYWORDS_POS, text, 1)
        neg == AddWeights(pos, KEYWORDS_NEG, text, 1)
    IN  Clamp(neg + DomainBonus(domains))


----------------------------------------------------------------------------
(* Stable identifier and the rows of process() *)

RECURSIVE DigestFrom(_, _, _)
DigestFrom(s, i, h) ==
    IF i > Len(s) THEN h
    ELSE DigestFrom(s, i + 1, (h * 31 + Ord(Ch(s, i))) % 65536)

RECURSIVE Hex(_, _)
\* n in `width` lowercase hexadecimal digits
Hex(n, width) ==
    IF width = 0 THEN ""
    ELSE Hex(n \div 16, width - 1) \o Ch("0123456789abcdef", (n % 16) + 1)

\* hashlib.md5(s.encode("utf-8")).hexdigest(): a digest of the characters of
\* s and of nothing else, in fixed-width hexadecimal (a 16-bit polynomial
\* digest stands for the 128-bit one)
md5_hexdigest(s) == Hex(DigestFrom(s, 1, 5381), 4)

\* x or ""
OrEmpty(x) == IF x = None THEN "" ELSE x

generate_external_id(link) == md5_hexdigest(OrEmpty(link))

\* the cap of raw_title and description
FieldCap == 400

\* feed.entries[:15]
EntryCap == 15

\* len(FEEDS)
NumFeeds == 3

\* title, link, summary as process() reads them off an entry
EntryTitle(e) == clean_text(OrEmpty(e.title))

EntryLink(e) == OrEmpty(e.link)

EntrySummary(e) == clean_text(OrEmpty(e.summary))

\* name = extract_company_name(title)
EntryName(e) == extract_company_name(EntryTitle(e))

\* the check of the name left out
NeverDropped(name) == FALSE

\* if not name: continue
Dropped(name) == name = None \/ name = ""

\* domains, from the set built of title, summary and link host to the sorted list
EntryDomains(e) ==
    LET host == get_domain_from_url(EntryLink(e))
        all == SetOf(extract_domains(EntryTitle(e)))
                 \cup SetOf(extract_domains(EntrySummary(e)))
                 \cup (IF host # None /\ host # "" THEN {host} ELSE {})
    IN  Sorted({d \in all : d # "" /\ Contains(d, ".")})

\* the row with its external_id taken from the title instead of the link
AssembleRowIdOfTitle(e, now) ==
    [external_id |-> generate_external_id(EntryTitle(e)),
     name |-> EntryName(e),
     raw_title |-> Prefix(EntryTitle(e), FieldCap),
     description |-> Prefix(EntrySummary(e), FieldCap),
     source_url |-> EntryLink(e),
     source_type |-> "WebScan",
     rank_score |-> compute_score(EntryTitle(e), EntrySummary(e), EntryDomains(e)),
     tm_risk |-> "MED",
     dom_risk |-> "MED",
     verification_status |-> "UNVERIFIED",
     confidence |-> 0,
     created_at |-> now]

\* row, as process() assembles it for entry e at time now
AssembleRow(e, now) ==
    [external_id |-> generate_external_id(EntryLink(e)),
     name |-> EntryName(e),
     raw_title |-> Prefix(EntryTitle(e), FieldCap),
     description |-> Prefix(EntrySummary(e), FieldCap),
     source_url |-> EntryLink(e),
     source_type |-> "WebScan",
     rank_score |-> compute_score(EntryTitle(e), EntrySummary(e), EntryDomains(e)),
     tm_risk |-> "MED",
     dom_risk |-> "MED",
     verification_status |-> "UNVERIFIED",
     confidence |-> 0,
     created_at |-> now]

\* len(feed.entries[:15])
VisitCount(n) == IF n < EntryCap THEN n ELSE EntryCap

\* the table after POST ...?on_conflict=external_id with
\* Prefer: resolution=merge-duplicates succeeded: the row with this
\* external_id is the posted one
Upsert(table, r) == {x \in table : x.external_id # r.external_id} \cup {r}

\* what a successful post does to the table: a new row, or a row replaced
Applied(table, r) ==
    IF \E x \in table : x.external_id = r.external_id
    THEN "updated" ELSE "inserted"

\* status codes of the sink: created, and two refusals
StatusCodes == {201, 401, 500}

Success(c) == c >= 200 /\ c < 300


----------------------------------------------------------------------------
(* Bounds and inputs *)

\* words in a headline given to extract_company_name
MaxTitleWords == 3

\* pieces in a text given to extract_domains
MaxPieces == 5

\* words in a title given to compute_score
MaxScoreWords == 2

\* entries of a feed that stays under the cap
MaxShortFeed == 2

\* runs of process() against the same table
MaxRuns == 2

\* every sequence of at most n elements of V
SeqsUpTo(V, n) == UNION {[1..k -> V] : k \in 0..n}

\* a plain name, a longer one, a possessive, an organisation suffix, a
\* geography entry, a noise entry, a boilerplate word, an action verb, a
\* lowercase word as long as "Acme", a name with punctuation behind it
TitleWords == {"Acme", "OpenAI", "Acme's", "Inc", "Europe", "Why", "Funding",
               "raises", "some", "Bolt."}

ExampleTitles == {"Acme Corp raises $10M", "OpenAI's new model",
                  "OpenAI" \o RSQUO \o "s new model",
                  "UK Startups Raise Record Funding"}

Titles ==
    {Join(ws, " ") : ws \in SeqsUpTo(TitleWords, MaxTitleWords)}
        \cup ExampleTitles

TextPieces == {"www", "a", "io", "COM", ".", "-", "_", " ", "x"}

DomainTexts == {Join(ps, "") : ps \in SeqsUpTo(TextPieces, MaxPieces)}

ScoreWords == {"Acme", "raises", "Raised", "acquires", "partnership", "how",
               "to", "Opinion", "podcast"}

ScoreTitles ==
    {Join(ws, " ") : ws \in SeqsUpTo(ScoreWords, MaxScoreWords)}
        \cup {"Acme raises funds"}

ScoreSummaries == {"", "to explain", "Visit acme.io for details",
                   "funding lands"}

ScoreDomains == {<<>>, <<"acme.io">>, <<"x.info">>, <<"acme.io", "x.info">>}

\* what feedparser may deliver: a funding headline with markup, a second
\* headline under the same link, a headline without a company name, an
\* entry with no field at all
Entries ==
    {[title |-> "<b>Acme</b> raises  funds",
      link |-> "https://www.acme.com/a",
      summary |-> "Visit acme.io &amp; more"],
     [title |-> "Bolt's new model",
      link |-> "https://www.acme.com/a",
      summary |-> None],
     [title |-> "Zed launches podcast",
      link |-> None,
      summary |-> "how to"],
     [title |-> "UK Startups Raise Record Funding",
      link |-> "https://x.io/b",
      summary |-> "seed round"],
     [title |-> None, link |-> None, summary |-> None]}

\* values of utc_now_iso()
Clock == {"2026-01-01T00:00:00+00:00"}

\* the entries process() skips
DroppedEntries == {e \in Entries : Dropped(EntryName(e))}

\* the entries process() posts, each with the row it assembles
Postings ==
    {[entry |-> e, row |-> AssembleRow(e, now)] :
        e \in Entries \ DroppedEntries, now \in Clock}

\* len(feed.entries): under the cap, or one over it
FeedLens == (0..MaxShortFeed) \cup {EntryCap + 1}

ShortLens == 0..MaxShortFeed

NoEntry == [title |-> None, link |-> None, summary |-> None]

NoRow == [external_id |-> None, name |-> None]

----------------------------------------------------------------------------
(* Initial states *)

ProcOff ==
    /\ pc = "off"
    /\ feedIdx = 0 /\ feedLen = 0 /\ entryIdx = 0
    /\ entry = NoEntry /\ row = NoRow /\ code = 0
    /\ total = 0 /\ kept = 0 /\ calls = 0 /\ named = 0 /\ due = 0
    /\ store = {} /\ outcome = "none" /\ runs = 0

\* process() entered: total = 0, kept = 0, the table empty
Init ==
    /\ fpc = "idle" /\ fn = "" /\ args = <<>> /\ ret = None
    /\ pc = "feed"
    /\ feedIdx = 0 /\ feedLen = 0 /\ entryIdx = 0
    /\ entry = NoEntry /\ row = NoRow /\ code = 0
    /\ total = 0 /\ kept = 0 /\ calls = 0 /\ named = 0 /\ due = 0
    /\ store = {} /\ outcome = "none" /\ runs = 1

InitName ==
    /\ ProcOff
    /\ fpc = "called" /\ fn = "extract_company_name"
    /\ args \in {[title |-> t] : t \in Titles}
    /\ ret = None

InitDomains ==
    /\ ProcOff
    /\ fpc = "called" /\ fn = "extract_domains"
    /\ args \in {[text |-> x, first |-> None] : x \in DomainTexts}
    /\ ret = None

InitScore ==
    /\ ProcOff
    /\ fpc = "called" /\ fn = "compute_score"
    /\ args \in [title : ScoreTitles, summary : ScoreSummaries,
                 domains : ScoreDomains]
    /\ ret = None

----------------------------------------------------------------------------
(* Calls of the pure functions *)

procVars == <<pc, feedIdx, feedLen, entryIdx, entry, row, code, total, kept,
              calls, named, due, store, outcome, runs>>

ReturnName ==
    /\ fpc = "called" /\ fn = "extract_company_name"
    /\ ret' = extract_company_name(args.title)
    /\ fpc' = "returned"
    /\ UNCHANGED <<fn, args, procVars>>

ReturnDomains ==
    /\ fpc = "called" /\ fn = "extract_domains"
    /\ ret' = extract_domains(args.text)
    /\ fpc' = "returned"
    /\ UNCHANGED <<fn, args, procVars>>

\* the returned list joined back into text and given to extract_domains again
CallDomainsAgain ==
    /\ fpc = "returned" /\ fn = "extract_domains"
    /\ args.first = None
    /\ args' = [text |-> Join(ret, " "), first |-> ret]
    /\ fpc' = "called"
    /\ UNCHANGED <<fn, ret, procVars>>

ReturnScore ==
    /\ fpc = "called" /\ fn = "compute_score"
    /\ ret' = compute_score(args.title, args.summary, args.domains)
    /\ fpc' = "returned"
    /\ UNCHANGED <<fn, args, procVars>>

----------------------------------------------------------------------------
(* process() *)

fnVars == <<fpc, fn, args, ret>>

\* for feed_url in FEEDS: feed = feedparser.parse(feed_url)
StartFeed(lens) ==
    /\ pc = "feed"
    /\ feedIdx < NumFeeds
    /\ \E n \in lens :
        /\ feedLen' = n
        /\ due' = due + (IF n < EntryCap THEN n ELSE EntryCap)
    /\ feedIdx' = feedIdx + 1
    /\ entryIdx' = 0
    /\ pc' = "entry"
    /\ UNCHANGED <<fnVars, entry, row, code, total, kept, calls, named, store,
                   outcome, runs>>

\* the inner loop is through the entries of the slice
EndFeed ==
    /\ pc = "entry"
    /\ entryIdx >= VisitCount(feedLen)
    /\ pc' = "feed"
    /\ UNCHANGED <<fnVars, feedIdx, feedLen, entryIdx, entry, row, code, total,
                   kept, calls, named, due, store, outcome, runs>>

\* an entry without a name: total += 1, continue
SkipEntry ==
    /\ pc = "entry"
    /\ entryIdx < VisitCount(feedLen)
    /\ \E e \in DroppedEntries : entry' = e
    /\ total' = total + 1
    /\ entryIdx' = entryIdx + 1
    /\ UNCHANGED <<fnVars, pc, feedIdx, feedLen, row, code, kept, calls, named,
                   due, store, outcome, runs>>

\* an entry with a name: total += 1, the row assembled and posted
PostRow ==
    /\ pc = "entry"
    /\ entryIdx < VisitCount(feedLen)
    /\ \E p \in Postings :
        /\ entry' = p.entry
        /\ row' = p.row
    /\ total' = total + 1
    /\ named' = named + 1
    /\ calls' = calls + 1
    /\ pc' = "sink"
    /\ UNCHANGED <<fnVars, feedIdx, feedLen, entryIdx, code, kept, due, store,
                   outcome, runs>>

\* a sink call repeated once when the status is not a success
SinkRetriesRefused ==
    /\ pc = "sink"
    /\ \E c \in StatusCodes :
        /\ code' = c
        /\ store' = IF Success(c) THEN Upsert(store, row) ELSE store
        /\ outcome' = IF Success(c) THEN Applied(store, row) ELSE "refused"
        /\ IF ~Success(c) /\ calls = named
           THEN /\ calls' = calls + 1
                /\ UNCHANGED <<kept, entryIdx, pc>>
           ELSE /\ kept' = kept + 1
                /\ entryIdx' = entryIdx + 1
                /\ pc' = "entry"
                /\ UNCHANGED calls
    /\ UNCHANGED <<fnVars, feedIdx, feedLen, entry, row, total, named, due, runs>>

\* upsert_startup returns (status, body): print, kept += 1, sleep, next entry
SinkReturns ==
    /\ pc = "sink"
    /\ \E c \in StatusCodes :
        /\ code' = c
        /\ store' = IF Success(c) THEN Upsert(store, row) ELSE store
        /\ outcome' = IF Success(c) THEN Applied(store, row) ELSE "refused"
    /\ kept' = kept + 1
    /\ entryIdx' = entryIdx + 1
    /\ pc' = "entry"
    /\ UNCHANGED <<fnVars, feedIdx, feedLen, entry, row, total, calls, named,
                   due, runs>>

\* requests.post raises (timeout, connection error): nothing in process()
\* catches it; the request may or may not have reached the table
SinkRaises ==
    /\ pc = "sink"
    /\ \/ store' = store /\ outcome' = "lost"
       \/ store' = Upsert(store, row) /\ outcome' = Applied(store, row)
    /\ pc' = "crashed"
    /\ UNCHANGED <<fnVars, feedIdx, feedLen, entryIdx, entry, row, code, total,
                   kept, calls, named, due, runs>>

\* print("DONE. total_seen:", total, "kept:", kept)
Finish ==
    /\ pc = "feed"
    /\ feedIdx = NumFeeds
    /\ pc' = "done"
    /\ UNCHANGED <<fnVars, feedIdx, feedLen, entryIdx, entry, row, code, total,
                   kept, calls, named, due, store, outcome, runs>>

\* the script is started again: a new process() against the same table
StartRun ==
    /\ pc \in {"done", "crashed"}
    /\ runs < MaxRuns
    /\ runs' = runs + 1
    /\ pc' = "feed"
    /\ feedIdx' = 0 /\ feedLen' = 0 /\ entryIdx' = 0
    /\ entry' = NoEntry /\ row' = NoRow /\ code' = 0
    /\ total' = 0 /\ kept' = 0 /\ calls' = 0 /\ named' = 0 /\ due' = 0
    /\ UNCHANGED <<fnVars, store, outcome>>

----------------------------------------------------------------------------
(* Specifications *)

\* one run of process()
Next ==
    \/ StartFeed(FeedLens)
    \/ EndFeed
    \/ SkipEntry
    \/ PostRow
    \/ SinkReturns
    \/ SinkRaises
    \/ Finish

Spec == Init /\ [][Next]_vars

\* a started run takes its next step: the loop is sequential and blocks only
\* in requests.post, which returns or raises within its timeout
FairSpec == Spec /\ WF_vars(Next)

\* runs of process() one after the other against the same table
NextRuns ==
    \/ StartFeed(ShortLens)
    \/ EndFeed
    \/ SkipEntry
    \/ PostRow
    \/ SinkReturns
    \/ SinkRaises
    \/ Finish
    \/ StartRun

SpecRuns == Init /\ [][NextRuns]_vars

NextName == ReturnName

SpecName == InitName /\ [][NextName]_vars

NextDomains == ReturnDomains \/ CallDomainsAgain

SpecDomains == InitDomains /\ [][NextDomains]_vars

NextScore == ReturnScore

SpecScore == InitScore /\ [][NextScore]_vars


----------------------------------------------------------------------------
(* Claims about extract_company_name (SpecName) *)

\* t of the call in progress
CallText == TitleText(args.title)

NameReturned == fpc = "returned" /\ fn = "extract_company_name"

\* the call went past the strong patterns into the fallback scan
FallbackRan == ~StrongAccepts(CallText, 1) /\ ~StrongAccepts(CallText, 2)

\* C1: extract_company_name returns None or 1 to 3 whitespace-separated
\* tokens, none of them in GEO, none in NOISE, none with its lowercase form in
\* BAD_LOWER, whichever path produced it.
C1_NameShape ==
    NameReturned /\ ret # None =>
        LET toks == Split(ret) IN
        /\ Len(toks) >= 1 /\ Len(toks) <= 3
        /\ \A k \in 1..Len(toks) :
            /\ toks[k] \notin GEO
            /\ toks[k] \notin NOISE
            /\ ToLower(toks[k]) \notin BAD_LOWER

\* a name returned by the fallback scan from a headline that opens with a
\* geography entry
C1_Witness ==
    /\ NameReturned /\ ret # None /\ FallbackRan
    /\ Len(Split(CallText)) = 3
    /\ Split(CallText)[1] \in GEO

\* some strong pattern matches t
StrongMatches == StrongGroup(CallText, 1) # None \/ StrongGroup(CallText, 2) # None

\* the sequence the matching strong pattern captured, suffixes stripped
StrongCaptured ==
    IF StrongGroup(CallText, 1) # None THEN StrongCand(CallText, 1)
    ELSE StrongCand(CallText, 2)

C4_Examples ==
    /\ args.title = "Acme Corp raises $10M" => ret = "Acme Corp"
    /\ args.title = "OpenAI's new model" => ret = "OpenAI"

\* C4 as claimed: when a strong pattern matches, the result is the captured
\* sequence or None, never a candidate of the fallback scan.
C4_Original ==
    NameReturned =>
        /\ StrongMatches => ret \in {StrongCaptured, None}
        /\ C4_Examples

\* C4 as amended: when a strong pattern matches and its captured sequence,
\* suffixes stripped, is not empty and has only tokens that pass token_ok, the
\* result is that sequence; when the captured sequence is rejected the result
\* is the fallback scan's. The two example headlines give "Acme Corp" and
\* "OpenAI".
C4_StrongPrecedence ==
    NameReturned =>
        /\ \A pat \in {1, 2} :
            StrongAccepts(CallText, pat) => ret = StrongCand(CallText, pat)
        /\ StrongMatches /\ FallbackRan => ret = Fallback(CallText)
        /\ C4_Examples

\* a strong match wins over a fallback candidate that would have been chosen
C4_Witness ==
    /\ NameReturned
    /\ StrongAccepts(CallText, 1)
    /\ ret = StrongCand(CallText, 1)
    /\ Fallback(CallText) \notin {ret, None}

\* an action verb follows the match that ends at e, whitespace apart
VerbFollows(t, e) == VerbAt(t, SkipSpace(t, e + 1), TRUE)

\* C8: in the fallback scan a candidate gets the +8 exactly when, where it
\* occurs in the title, an action verb follows it.
C8_BonusWhereItOccurs ==
    NameReturned /\ FallbackRan =>
        LET scored == Scored(CallText) IN
        \A k \in 1..Len(scored) :
            scored[k].bonus <=> VerbFollows(CallText, scored[k].e)

\* C9: the fallback scan returns the accepted candidate with the highest
\* score, the first of them in the title when several share it.
C9_HighestFirst ==
    NameReturned /\ FallbackRan /\ Len(Scored(CallText)) > 0 =>
        LET scored == Scored(CallText) IN
        \E k \in 1..Len(scored) :
            /\ ret = scored[k].s
            /\ \A j \in 1..Len(scored) :
                /\ scored[j].score <= scored[k].score
                /\ j < k => scored[j].score < scored[k].score

\* two different accepted candidates share the highest score
C9_Witness ==
    /\ NameReturned /\ FallbackRan
    /\ LET scored == Scored(CallText) IN
       /\ Len(scored) >= 2
       /\ ret = scored[1].s
       /\ \E j \in 2..Len(scored) :
            scored[j].score = scored[1].score /\ scored[j].s # scored[1].s
       /\ \A j \in 1..Len(scored) : scored[j].score <= scored[1].score

----------------------------------------------------------------------------
(* Claims about extract_domains (SpecDomains) *)

\* C5: the domains extract_domains returns, joined with spaces and extracted
\* again, give the same set; every returned domain is lowercase and has no
\* leading "www.".
C5_Idempotent ==
    fpc = "returned" /\ fn = "extract_domains" =>
        /\ \A k \in 1..Len(ret) :
            ret[k] = ToLower(ret[k]) /\ ~StartsWith(ret[k], "www.")
        /\ args.first # None => SetOf(ret) = SetOf(args.first)

----------------------------------------------------------------------------
(* Claims about compute_score (SpecScore) *)

ScoreReturned == fpc = "returned" /\ fn = "compute_score"

\* the keywords of a table that occur in the lowercased title + " " + summary
Present(table) ==
    {i \in 1..Len(table) :
        Contains(ToLower(args.title \o " " \o args.summary), table[i][1])}

RECURSIVE WeightSum(_, _)
WeightSum(table, I) ==
    IF I = {} THEN 0
    ELSE LET i == CHOOSE i \in I : TRUE IN table[i][2] + WeightSum(table, I \ {i})

\* the sum the claim describes, before clamping
RawScore ==
    50 + WeightSum(KEYWORDS_POS, Present(KEYWORDS_POS))
       + WeightSum(KEYWORDS_NEG, Present(KEYWORDS_NEG))
       + (IF args.domains # <<>> THEN 12 ELSE 0)
       + (IF \E k \in 1..Len(args.domains) : EndsWith(args.domains[k], ".info")
          THEN 4 ELSE 0)

\* C6: compute_score returns an integer from 0 to 100 for every input.
C6_ScoreRange == ScoreReturned => ret \in 0..100

\* more keywords than the range holds: the sum is over 100 and is cut to 100
C6_Witness == ScoreReturned /\ RawScore > 100 /\ ret = 100

\* C7: the score is 50, plus the weight of every keyword of either table in
\* the lowercased title + " " + summary, plus the domain bonus, plus the
\* ".info" extra, cut to 0..100; the example gives 50 + 18 + the bonus.
C7_ScoreFormula ==
    ScoreReturned =>
        /\ ret = (IF RawScore > 100 THEN 100 ELSE IF RawScore < 0 THEN 0 ELSE RawScore)
        /\ (/\ args.title = "Acme raises funds"
            /\ args.summary = "Visit acme.io for details"
            /\ args.domains = <<"acme.io">>) => ret = 50 + 18 + 12

\* two positive keywords and a negative one add up
C7_Witness ==
    /\ ScoreReturned
    /\ Cardinality(Present(KEYWORDS_POS)) >= 2
    /\ Cardinality(Present(KEYWORDS_NEG)) >= 1
    /\ args.domains # <<>>
    /\ ret < 100
    /\ ret = RawScore

----------------------------------------------------------------------------
(* Claims about process() *)

HexChars == {"0","1","2","3","4","5","6","7","8","9","a","b","c","d","e","f"}

\* a hexadecimal digest
ValidId(x) ==
    /\ x # None
    /\ Len(x) > 0
    /\ \A i \in 1..Len(x) : Ch(x, i) \in HexChars

\* C2: every row handed to upsert_startup, and so every row of the table, has
\* a non-empty name and an external_id; an entry without a name is never
\* made a row and never posted.
C2_NamedRowsOnly ==
    /\ pc \in {"sink", "crashed"} =>
        /\ row.name # None /\ row.name # ""
        /\ ValidId(row.external_id)
        /\ entry \notin DroppedEntries
    /\ \A r \in store : r.name # None /\ r.name # "" /\ ValidId(r.external_id)
    /\ calls = named
    /\ total >= named

\* a nameless entry was just skipped after a row had been posted: no call
\* was made for it
C2_Witness ==
    /\ pc = "entry"
    /\ entry \in DroppedEntries
    /\ calls = 1
    /\ total = 2
    /\ store # {}

\* C3: the table holds at most one row per link, and a successful post of a
\* link already in the table replaces its row instead of adding one, in the
\* same run or a later one.
C3_OneRowPerLink ==
    /\ [](\A r1 \in store : \A r2 \in store :
            r1.source_url = r2.source_url => r1 = r2)
    /\ [][pc = "sink" /\ (\E x \in store : x.source_url = row.source_url)
            => /\ Cardinality(store') = Cardinality(store)
               /\ store' # store => row \in store']_vars

\* in a second run a link ingested before was posted again, under another
\* name, and its row replaced
C3_Witness ==
    /\ runs = 2
    /\ outcome = "updated"
    /\ row \in store
    /\ row.name = "Bolt"
    /\ Cardinality(store) = 1
    /\ calls = 1

====
